---- MODULE Spec2Model ----
(***************************************************************************)
(* Model of src/requirements.cpp: requirement sets (qualities, tools,      *)
(* components as lists of alternative groups), the three-tier              *)
(* satisfiability pass with the cross-tier materials check, the algebra    *)
(* (operator*, operator+) and the disassembly derivation.                  *)
(***************************************************************************)
EXTENDS Integers, Sequences, FiniteSets, TLC

VARIABLES
    req,               \* the requirement_data object operated on (*this)
    crafting_inv,      \* the inventory handed to can_make_with_inventory
    batch,             \* the batch factor handed to can_make_with_inventory
    u,                 \* the player g->u (trait WEB_ROPE, hunger)
    retval,            \* value returned by the latest can_make_with_inventory
    ncalls,            \* calls of can_make_with_inventory since inventory/batch changed
    prev,              \* req and retval as the call before the latest one left them
    rhs,               \* right operand of operator+
    scalar,            \* operand of operator*
    res,               \* value returned by the latest operator*, operator+ or derivation
    requirements_all,  \* the catalog: requirement_id -> requirement_data
    op,                \* name of the latest operation
    key,               \* the requirement_id of the latest is_valid or obj
    saved              \* history: arguments of each save_requirement since the last reset

vars == <<req, crafting_inv, batch, u, retval, ncalls, prev, rhs, scalar, res,
          requirements_all, op, key, saved>>

(***************************************************************************)
(* Bounds of the model.                                                    *)
(***************************************************************************)
MaxToolGroups == 2  \* tool groups of a set handed to disassembly_requirements
MaxAmount == 2      \* units of one item type (or charges) an inventory holds
MaxBatch == 2       \* batch factor
MaxScalar == 3      \* operand of operator*
MaxCount == 2       \* magnitude of a count in a set handed to operator* or operator+
MaxSaves == 3       \* calls of save_requirement between two calls of reset

(***************************************************************************)
(* Small helpers.                                                          *)
(***************************************************************************)
abs(x) == IF x < 0 THEN -x ELSE x

max(a, b) == IF a < b THEN b ELSE a

Min(S) == CHOOSE x \in S : \A y \in S : x <= y

RECURSIVE Flatten(_)
\* the members of all groups, in iteration order of the nested range-for loops
Flatten(vec) == IF vec = <<>> THEN <<>> ELSE Head(vec) \o Flatten(Tail(vec))

\* sequences over S of length 0..n
SeqUpTo(S, n) == UNION {[1..k -> S] : k \in 0..n}

(***************************************************************************)
(* available_status and the requirement items.                             *)
(***************************************************************************)
a_unknown == "a_unknown"
a_true == "a_true"
a_false == "a_false"
a_insufficent == "a_insufficent"

NULL_ID == "null"

nullptr == [null |-> TRUE]

quality_requirement(type, level, count) ==
    [type |-> type, level |-> level, count |-> count, available |-> a_unknown]

tool_comp(type, count) ==
    [type |-> type, count |-> count, available |-> a_unknown]

item_comp(type, count, recoverable) ==
    [type |-> type, count |-> count, recoverable |-> recoverable,
     available |-> a_unknown]

requirement_data(id, qualities, tools, components) ==
    [id_ |-> id, qualities |-> qualities, tools |-> tools, components |-> components]

null_requirement == requirement_data(NULL_ID, <<>>, <<>>, <<>>)

\* requirements_all with no entry
EmptyCatalog == [id \in {} |-> null_requirement]

is_quality_requirement(comp) == "level" \in DOMAIN comp

is_item_comp(comp) == "recoverable" \in DOMAIN comp

\* tool_comp::by_charges
by_charges(tool) == tool.count > 0

(***************************************************************************)
(* Item type registry (item::find_type, item::count_by_charges,            *)
(* item::has_flag): a fixture of item types.                               *)
(***************************************************************************)
itype_qualities(type) ==
    CASE type = "scissors" -> {[id |-> "CUT", level |-> 1]}
      [] type = "knife" -> {[id |-> "CUT", level |-> 2]}
      [] type = "hacksaw" -> {[id |-> "SAW_M_FINE", level |-> 1]}
      [] OTHER -> {}

count_by_charges(type) == type \in {"nails", "thread"}

has_flag(type, flag) == flag = "UNRECOVERABLE" /\ type \in {"superglue"}

(***************************************************************************)
(* Inventory query contract.  An inventory holds, per item type, a number  *)
(* of real items, a number of pseudo items (tools only, e.g. supplied by a *)
(* vehicle part) and a number of charges.                                  *)
(***************************************************************************)
has_components(inv, type, n) == inv.amount[type] >= n

has_tools(inv, type, n) == inv.amount[type] + inv.pseudo[type] >= n

has_charges(inv, type, n) == inv.charges[type] >= n

quality_level(type, q) ==
    LET ls == {ql.level : ql \in {x \in itype_qualities(type) : x.id = q}}
    IN  IF ls = {} THEN -100 ELSE CHOOSE l \in ls : TRUE

RECURSIVE SumOver(_, _)
SumOver(f, S) ==
    IF S = {} THEN 0
    ELSE LET t == CHOOSE x \in S : TRUE IN f[t] + SumOver(f, S \ {t})

has_quality(inv, q, level, n) ==
    LET providers == {t \in DOMAIN inv.amount : quality_level(t, q) >= level}
    IN  SumOver([t \in providers |-> inv.amount[t] + inv.pseudo[t]], providers) >= n

(***************************************************************************)
(* has(): the satisfiability predicate of each kind of item.               *)
(***************************************************************************)
HungerLimit == 300

\* quality_requirement::has
quality_requirement_has(comp, inv) ==
    has_quality(inv, comp.type, comp.level, comp.count)

\* tool_comp::has
tool_comp_has(comp, inv, b) ==
    IF ~by_charges(comp)
    THEN has_tools(inv, comp.type, abs(comp.count))
    ELSE has_charges(inv, comp.type, comp.count * b)

\* item_comp::has
item_comp_has(comp, inv, b, player) ==
    IF /\ comp.type \in {"rope_30", "rope_6"}
       /\ player.WEB_ROPE
       /\ player.hunger <= HungerLimit
    THEN TRUE
    ELSE LET cnt == abs(comp.count) * b
         IN  IF count_by_charges(comp.type)
             THEN has_charges(inv, comp.type, cnt)
             ELSE has_components(inv, comp.type, cnt)

\* T::has, resolved on the kind of item as the template instantiation does
has(comp, inv, b, player) ==
    IF is_quality_requirement(comp) THEN quality_requirement_has(comp, inv)
    ELSE IF is_item_comp(comp) THEN item_comp_has(comp, inv, b, player)
    ELSE tool_comp_has(comp, inv, b)

(***************************************************************************)
(* requirement_data::has_comps                                             *)
(***************************************************************************)
has_comps(inv, vec, b, player) ==
    LET marked == [i \in 1..Len(vec) |->
                     [j \in 1..Len(vec[i]) |->
                        [vec[i][j] EXCEPT !.available =
                            IF has(vec[i][j], inv, b, player)
                            THEN a_true ELSE a_false]]]
    IN  [vec |-> marked,
         retval |-> \A i \in 1..Len(marked) :
                       \E j \in 1..Len(marked[i]) :
                          marked[i][j].available = a_true]

(***************************************************************************)
(* requirement_data::find_by_type: the first item of that type.            *)
(***************************************************************************)
find_by_type(vec, type) ==
    LET flat == Flatten(vec)
        idx == {k \in 1..Len(flat) : flat[k].type = type}
    IN  IF idx = {} THEN nullptr ELSE flat[Min(idx)]

(***************************************************************************)
(* requirement_data::check_enough_materials( comp, crafting_inv, batch ):  *)
(* comp as the call leaves it; the call returns comp.available == a_true.  *)
(***************************************************************************)
tool_claims(this, comp, inv, b, player) ==
    LET cnt == abs(comp.count) * b
        tq == find_by_type(this.tools, comp.type)
    IN  /\ tq # nullptr
        /\ tq.available = a_true
        /\ LET tc == IF by_charges(tq) THEN 1 ELSE abs(tq.count)
               i_tmp == item_comp(comp.type, cnt + tc, TRUE)
               t_tmp == tool_comp(comp.type, -(cnt + tc))
           IN  /\ ~item_comp_has(i_tmp, inv, 1, player)
               /\ ~tool_comp_has(t_tmp, inv, 1)

quality_claims(this, comp, inv) ==
    \E ql \in itype_qualities(comp.type) :
        LET qr == find_by_type(this.qualities, ql.id)
        IN  /\ qr # nullptr
            /\ ~(qr.level > ql.level)
            /\ ~has_quality(inv, qr.type, qr.level, qr.count + abs(comp.count))

\* a variant without the early return of line 608: any component is examined
check_enough_materials_of_any(this, comp, inv, b, player) ==
    IF tool_claims(this, comp, inv, b, player) \/ quality_claims(this, comp, inv)
    THEN [comp EXCEPT !.available = a_insufficent]
    ELSE comp

check_enough_materials_comp(this, comp, inv, b, player) ==
    IF comp.available # a_true
    THEN comp
    ELSE IF tool_claims(this, comp, inv, b, player) \/ quality_claims(this, comp, inv)
         THEN [comp EXCEPT !.available = a_insufficent]
         ELSE comp

(***************************************************************************)
(* requirement_data::check_enough_materials( crafting_inv, batch )         *)
(***************************************************************************)
check_enough_materials(this, inv, b, player) ==
    LET checked == [i \in 1..Len(this.components) |->
                      [j \in 1..Len(this.components[i]) |->
                         check_enough_materials_comp(this, this.components[i][j],
                                                     inv, b, player)]]
    IN  [this |-> [this EXCEPT !.components = checked],
         retval |-> \A i \in 1..Len(checked) :
                       \E j \in 1..Len(checked[i]) :
                          checked[i][j].available = a_true]

(***************************************************************************)
(* Variants of can_make_with_inventory with a plausible slip, used to show *)
(* that the properties below depend on the code.                           *)
(***************************************************************************)
\* returns at the first failed sub-check, leaving the later lists unvisited
can_make_short_circuit(this, inv, b, player) ==
    LET q == has_comps(inv, this.qualities, 1, player)
        t == has_comps(inv, this.tools, b, player)
        c == has_comps(inv, this.components, b, player)
        m == check_enough_materials(
                 [this EXCEPT !.qualities = q.vec, !.tools = t.vec,
                              !.components = c.vec], inv, b, player)
    IN  IF ~q.retval
        THEN [this |-> [this EXCEPT !.qualities = q.vec], retval |-> FALSE]
        ELSE IF ~t.retval
        THEN [this |-> [this EXCEPT !.qualities = q.vec, !.tools = t.vec],
              retval |-> FALSE]
        ELSE [this |-> m.this, retval |-> c.retval /\ m.retval]

\* runs the materials check before the tools have been marked
can_make_reordered(this, inv, b, player) ==
    LET q == has_comps(inv, this.qualities, 1, player)
        c == has_comps(inv, this.components, b, player)
        m == check_enough_materials(
                 [this EXCEPT !.qualities = q.vec, !.components = c.vec],
                 inv, b, player)
        t == has_comps(inv, this.tools, b, player)
    IN  [this |-> [m.this EXCEPT !.tools = t.vec],
         retval |-> q.retval /\ t.retval /\ c.retval /\ m.retval]

(***************************************************************************)
(* requirement_data::can_make_with_inventory                               *)
(***************************************************************************)
can_make_with_inventory(this, inv, b, player) ==
    LET q == has_comps(inv, this.qualities, 1, player)
        t == has_comps(inv, this.tools, b, player)
        c == has_comps(inv, this.components, b, player)
        marked == [this EXCEPT !.qualities = q.vec, !.tools = t.vec,
                               !.components = c.vec]
        m == check_enough_materials(marked, inv, b, player)
    IN  [this |-> m.this,
         retval |-> q.retval /\ t.retval /\ c.retval /\ m.retval]

(***************************************************************************)
(* Requirement sets the satisfiability pass is run on: what load_obj_list  *)
(* builds (tool counts non-zero, quality and component counts positive),   *)
(* with an empty group allowed as derivation can leave one.                *)
(***************************************************************************)
QualityLists ==
    { <<>>,
      << <<>> >>,
      << <<quality_requirement("CUT", 1, 1)>> >>,
      << <<quality_requirement("CUT", 2, 1), quality_requirement("CUT", 1, 1)>> >> }

ToolLists ==
    { <<>>,
      << <<>> >>,
      << <<tool_comp("welder", -1)>> >>,
      << <<tool_comp("welder", -2), tool_comp("welder", -1)>> >>,
      << <<tool_comp("welder", 1)>> >>,
      << <<tool_comp("scissors", -1)>>, <<tool_comp("welder", -2)>> >> }

ComponentLists ==
    { <<>>,
      << <<>> >>,
      << <<item_comp("welder", 1, TRUE)>> >>,
      << <<item_comp("scissors", 1, TRUE)>> >>,
      << <<item_comp("welder", 1, TRUE), item_comp("scissors", 2, TRUE)>> >>,
      << <<item_comp("nails", 2, TRUE)>> >>,
      << <<item_comp("rope_30", 1, TRUE)>> >>,
      << <<item_comp("welder", 2, TRUE)>>, <<item_comp("scissors", 1, FALSE)>> >> }

SatRequirements ==
    { requirement_data(NULL_ID, q, t, c) :
        q \in QualityLists, t \in ToolLists, c \in ComponentLists }

ItemTypes == {"welder", "scissors", "nails", "rope_30"}

PseudoTypes == {"welder"}

TypesOf(vec) == {Flatten(vec)[k].type : k \in 1..Len(Flatten(vec))}

\* the item types whose stock of items can change the outcome for r
CountedTypes(r) ==
    {t \in ItemTypes :
        \/ \E k \in 1..Len(Flatten(r.tools)) :
              Flatten(r.tools)[k].type = t /\ ~by_charges(Flatten(r.tools)[k])
        \/ t \in TypesOf(r.components) /\ ~count_by_charges(t)
        \/ t \in TypesOf(r.components) \cap TypesOf(r.tools)
        \/ \E q \in TypesOf(r.qualities) : quality_level(t, q) > 0}

\* the item types whose stock of charges can change the outcome for r
ChargedTypes(r) ==
    {t \in ItemTypes :
        \/ \E k \in 1..Len(Flatten(r.tools)) :
              Flatten(r.tools)[k].type = t /\ by_charges(Flatten(r.tools)[k])
        \/ t \in TypesOf(r.components) /\ count_by_charges(t)}

IsInventory(r, inv) ==
    /\ \A t \in ItemTypes :
          inv.amount[t] \in (IF t \in CountedTypes(r) THEN 0..MaxAmount ELSE {0})
    /\ \A t \in ItemTypes :
          inv.pseudo[t] \in (IF t \in PseudoTypes \cap TypesOf(r.tools) \cap CountedTypes(r)
                             THEN 0..1 ELSE {0})
    /\ \A t \in ItemTypes :
          inv.charges[t] \in (IF t \in ChargedTypes(r) THEN 0..MaxAmount ELSE {0})

Inventories(r) ==
    { [amount |-> a, pseudo |-> p, charges |-> c] :
        a \in {f \in [ItemTypes -> 0..MaxAmount] :
                  \A t \in ItemTypes \ CountedTypes(r) : f[t] = 0},
        p \in {f \in [ItemTypes -> 0..1] :
                  \A t \in ItemTypes \ (PseudoTypes \cap TypesOf(r.tools) \cap CountedTypes(r)) :
                      f[t] = 0},
        c \in {f \in [ItemTypes -> 0..MaxAmount] :
                  \A t \in ItemTypes \ ChargedTypes(r) : f[t] = 0} }

NoTrait == [WEB_ROPE |-> FALSE, hunger |-> HungerLimit]

Players(r) ==
    IF {"rope_30", "rope_6"} \cap TypesOf(r.components) = {}
    THEN {NoTrait}
    ELSE {NoTrait, [WEB_ROPE |-> TRUE, hunger |-> HungerLimit],
          [WEB_ROPE |-> TRUE, hunger |-> HungerLimit + 1]}

NoCall == "none"

(***************************************************************************)
(* Specification of the satisfiability pass.                               *)
(***************************************************************************)
Init ==
    /\ req \in SatRequirements
    /\ crafting_inv \in Inventories(req)
    /\ batch \in 1..MaxBatch
    /\ u \in Players(req)
    /\ retval = NoCall
    /\ ncalls = 0
    /\ prev = NoCall
    /\ rhs = null_requirement
    /\ scalar = 1
    /\ res = null_requirement
    /\ requirements_all = EmptyCatalog
    /\ op = "init"
    /\ key = NULL_ID
    /\ saved = <<>>

\* a caller runs req.can_make_with_inventory( crafting_inv, batch )
CanMake ==
    /\ ncalls < 2
    /\ LET r == can_make_with_inventory(req, crafting_inv, batch, u)
       IN  /\ req' = r.this
           /\ retval' = r.retval
    /\ prev' = IF ncalls = 0 THEN NoCall ELSE [req |-> req, retval |-> retval]
    /\ ncalls' = ncalls + 1
    /\ op' = "can_make_with_inventory"
    /\ UNCHANGED <<crafting_inv, batch, u, rhs, scalar, res, requirements_all, key, saved>>

\* between calls the world changes by one step; the annotations stay as the
\* last call left them
Changed ==
    /\ ncalls = 1
    /\ ncalls' = 0
    /\ prev' = NoCall
    /\ retval' = NoCall
    /\ UNCHANGED <<req, rhs, scalar, res, requirements_all, key, saved>>

AddItem ==
    /\ Changed
    /\ \E t \in ItemTypes :
          crafting_inv' = [crafting_inv EXCEPT !.amount[t] = @ + 1]
    /\ IsInventory(req, crafting_inv')
    /\ op' = "add_item"
    /\ UNCHANGED <<batch, u>>

RemoveItem ==
    /\ Changed
    /\ \E t \in ItemTypes :
          crafting_inv' = [crafting_inv EXCEPT !.amount[t] = @ - 1]
    /\ IsInventory(req, crafting_inv')
    /\ op' = "remove_item"
    /\ UNCHANGED <<batch, u>>

SetPseudo ==
    /\ Changed
    /\ \E t \in ItemTypes :
          crafting_inv' = [crafting_inv EXCEPT !.pseudo[t] = 1 - @]
    /\ IsInventory(req, crafting_inv')
    /\ op' = "set_pseudo"
    /\ UNCHANGED <<batch, u>>

SetCharges ==
    /\ Changed
    /\ \E t \in ItemTypes, d \in {-1, 1} :
          crafting_inv' = [crafting_inv EXCEPT !.charges[t] = @ + d]
    /\ IsInventory(req, crafting_inv')
    /\ op' = "set_charges"
    /\ UNCHANGED <<batch, u>>

SetBatch ==
    /\ Changed
    /\ batch' \in (1..MaxBatch) \ {batch}
    /\ op' = "set_batch"
    /\ UNCHANGED <<crafting_inv, u>>

SetPlayer ==
    /\ Changed
    /\ u' \in Players(req) \ {u}
    /\ op' = "set_player"
    /\ UNCHANGED <<crafting_inv, batch>>

Next ==
    \/ CanMake
    \/ AddItem
    \/ RemoveItem
    \/ SetPseudo
    \/ SetCharges
    \/ SetBatch
    \/ SetPlayer

Spec == Init /\ [][Next]_vars

(***************************************************************************)
(* Properties of the satisfiability pass.                                  *)
(***************************************************************************)
Called == ncalls >= 1

\* positions <<i, j>> of the members of the groups of vec
Members(vec) == UNION {{<<i, j>> : j \in 1..Len(vec[i])} : i \in 1..Len(vec)}

\* the item's own predicate against the inventory of the latest call
IsSatisfied(comp) == has(comp, crafting_inv, batch, u)

EveryGroupHas(vec) ==
    \A i \in 1..Len(vec) : \E j \in 1..Len(vec[i]) : IsSatisfied(vec[i][j])

EveryGroupMarked(vec) ==
    \A i \in 1..Len(vec) : \E j \in 1..Len(vec[i]) : vec[i][j].available = a_true

\* the annotation of every member was written by the latest call
Evaluated(vec) ==
    \A i \in 1..Len(vec) : \A j \in 1..Len(vec[i]) :
        /\ vec[i][j].available # a_unknown
        /\ (vec[i][j].available = a_false) <=> ~IsSatisfied(vec[i][j])

\* C1: can_make_with_inventory returns true exactly when every group of the
\* three lists has a member whose own predicate holds and every component
\* group keeps a member marked a_true after the materials check; all lists
\* are annotated whatever the result.
C1_ResultIsConjunction ==
    Called =>
        /\ retval = (/\ EveryGroupHas(req.qualities)
                     /\ EveryGroupHas(req.tools)
                     /\ EveryGroupHas(req.components)
                     /\ EveryGroupMarked(req.components))
        /\ Evaluated(req.qualities)
        /\ Evaluated(req.tools)
        /\ Evaluated(req.components)

\* a call that fails on its qualities and still annotates tools and components,
\* one of them demoted by the materials check
C1_Witness ==
    /\ Called
    /\ retval = FALSE
    /\ ~EveryGroupHas(req.qualities)
    /\ EveryGroupHas(req.tools)
    /\ EveryGroupHas(req.components)
    /\ \E i \in 1..Len(req.components) : \E j \in 1..Len(req.components[i]) :
          req.components[i][j].available = a_insufficent
    /\ \E i \in 1..Len(req.tools) : \E j \in 1..Len(req.tools[i]) :
          req.tools[i][j].available = a_true

\* a call that succeeds with all three lists non-empty
C1_WitnessTrue ==
    /\ Called
    /\ retval = TRUE
    /\ req.qualities # <<>> /\ req.tools # <<>> /\ req.components # <<>>

\* the quantity a tool requirement claims of its item type in the materials check
ToolNeed(tq) == IF by_charges(tq) THEN 1 ELSE abs(tq.count)

\* the inventory supplies n units of type neither as components nor as tools
CannotSupply(type, n) ==
    /\ ~item_comp_has(item_comp(type, n, TRUE), crafting_inv, 1, u)
    /\ ~tool_comp_has(tool_comp(type, -n), crafting_inv, 1)

\* C2: after a call, a component whose own predicate holds and whose item type
\* appears anywhere in the tools list as a tool marked a_true is a_insufficent
\* whenever the inventory cannot supply component need + tool need, neither as
\* components nor as tools; a sole member so demoted makes the call return false.
C2_ToolDoubleClaim ==
    Called =>
        \A p \in Members(req.components) :
            LET comp == req.components[p[1]][p[2]]
            IN  \A k \in Members(req.tools) :
                    LET tq == req.tools[k[1]][k[2]]
                    IN  (/\ IsSatisfied(comp)
                         /\ tq.type = comp.type
                         /\ tq.available = a_true
                         /\ CannotSupply(comp.type,
                                         abs(comp.count) * batch + ToolNeed(tq)))
                        => /\ comp.available = a_insufficent
                           /\ Len(req.components[p[1]]) = 1 => retval = FALSE

\* C2, for the tool requirement find_by_type returns (the first of that type)
C2_FirstToolDoubleClaim ==
    Called =>
        \A p \in Members(req.components) :
            LET comp == req.components[p[1]][p[2]]
                tq == find_by_type(req.tools, comp.type)
            IN  (/\ IsSatisfied(comp)
                 /\ tq # nullptr
                 /\ tq.available = a_true
                 /\ CannotSupply(comp.type, abs(comp.count) * batch + ToolNeed(tq)))
                => /\ comp.available = a_insufficent
                   /\ Len(req.components[p[1]]) = 1 => retval = FALSE

\* a by-possession tool of magnitude T and a component of magnitude C of the
\* same type, batch 1, exactly T + C - 1 units: the component is demoted
C2_Witness ==
    /\ Called
    /\ batch = 1
    /\ \E p \in Members(req.components), k \in Members(req.tools) :
          LET comp == req.components[p[1]][p[2]]
              tq == req.tools[k[1]][k[2]]
          IN  /\ tq.type = comp.type
              /\ ~by_charges(tq)
              /\ crafting_inv.amount[comp.type] = abs(tq.count) + comp.count - 1
              /\ crafting_inv.pseudo[comp.type] = 0
              /\ comp.available = a_insufficent
              /\ retval = FALSE

\* C3: after a call, a component whose own predicate holds and whose item type
\* provides quality Q at level L is a_insufficent whenever the set has a
\* satisfied requirement for Q of level <= L and count K and the inventory
\* cannot supply Q at that level with count K + M (M the component's own
\* magnitude); a component no such requirement matches is not demoted by the
\* quality rule.
QualityShort(comp, qr) ==
    /\ \E ql \in itype_qualities(comp.type) : ql.id = qr.type /\ qr.level <= ql.level
    /\ qr.available = a_true
    /\ ~has_quality(crafting_inv, qr.type, qr.level, qr.count + abs(comp.count))

C3_QualityDoubleClaim ==
    Called =>
        \A p \in Members(req.components) :
            LET comp == req.components[p[1]][p[2]]
                short == \E k \in Members(req.qualities) :
                             QualityShort(comp, req.qualities[k[1]][k[2]])
            IN  IsSatisfied(comp) =>
                    /\ short => comp.available = a_insufficent
                    /\ (~short /\ find_by_type(req.tools, comp.type) = nullptr)
                           => comp.available = a_true

\* a component demoted by the quality rule alone
C3_Witness ==
    /\ Called
    /\ \E p \in Members(req.components) :
          LET comp == req.components[p[1]][p[2]]
          IN  /\ comp.available = a_insufficent
              /\ find_by_type(req.tools, comp.type) = nullptr
              /\ \E k \in Members(req.qualities) :
                    QualityShort(comp, req.qualities[k[1]][k[2]])

\* C4: a second call with the inventory, batch and player unchanged returns
\* the same boolean and leaves every annotation as the first call left it.
C4_Idempotent ==
    ncalls = 2 => (prev.req = req /\ prev.retval = retval)

\* a second call on a set that holds a demoted component
C4_Witness ==
    /\ ncalls = 2
    /\ \E p \in Members(req.components) :
          req.components[p[1]][p[2]].available = a_insufficent
    /\ \E p \in Members(req.tools) : req.tools[p[1]][p[2]].available = a_true

(***************************************************************************)
(* requirement_data::disassembly_requirements                              *)
(***************************************************************************)
NoMatch == "no_match"

NoQuality == "no_quality"

\* the replacement table with forge left out
replacement_without_forge(type) ==
    IF type \in {"welder", "welder_crude", "oxy_torch", "char_forge"}
    THEN "SAW_M_FINE"
    ELSE IF type \in {"sewing_kit", "mold_plastic"} THEN "CUT"
    ELSE IF type = "crucible" THEN NoQuality
    ELSE NoMatch

\* the three tests of the loop body, lines 708-725: the quality that replaces
\* a tool of this type, NoQuality when it is replaced by nothing, NoMatch
\* when the tool is not in the table
replacement(type) ==
    IF type \in {"welder", "welder_crude", "oxy_torch", "forge", "char_forge"}
    THEN "SAW_M_FINE"
    ELSE IF type \in {"sewing_kit", "mold_plastic"} THEN "CUT"
    ELSE IF type = "crucible" THEN NoQuality
    ELSE NoMatch

\* the inner loop over one tool group: the replacement of the first tool of
\* the table (the loop breaks there), NoMatch if the group has none
group_replacement(group) ==
    LET idx == {j \in 1..Len(group) : replacement(group[j].type) # NoMatch}
    IN  IF idx = {} THEN NoMatch ELSE replacement(group[Min(idx)].type)

RECURSIVE new_qualities_of(_)
\* new_qualities after the loop over ret.tools
new_qualities_of(tools) ==
    IF tools = <<>> THEN <<>>
    ELSE LET r == group_replacement(Head(tools))
         IN  (IF r \in {NoMatch, NoQuality} THEN <<>>
              ELSE <<quality_requirement(r, 1, 1)>>)
             \o new_qualities_of(Tail(tools))

\* ret.tools after the loop: replaced groups are cleared
cleared_tools(tools) ==
    [i \in 1..Len(tools) |->
        IF group_replacement(tools[i]) # NoMatch THEN <<>> ELSE tools[i]]

RECURSIVE unique(_)
\* std::unique with the predicate a.type == b.type, and the resize that follows:
\* of every run of consecutive entries of one type the first is kept
unique(seq) ==
    IF Len(seq) <= 1 THEN seq
    ELSE IF seq[1].type = seq[2].type
         THEN unique(<<seq[1]>> \o SubSeq(seq, 3, Len(seq)))
         ELSE <<seq[1]>> \o unique(Tail(seq))

\* the predicate of the inner remove_if without the item flag
unrecoverable_ignoring_flag(comp) == ~comp.recoverable

\* the predicate of the inner remove_if, line 763
unrecoverable(comp) == ~comp.recoverable \/ has_flag(comp.type, "UNRECOVERABLE")

\* lines 759-766: each group loses its unrecoverable members, empty groups go
remove_unrecoverable(components) ==
    LET thinned == [i \in 1..Len(components) |->
                       SelectSeq(components[i], LAMBDA c : ~unrecoverable(c))]
    IN  SelectSeq(thinned, LAMBDA cov : cov # <<>>)

\* lines 738-751: ret.qualities
disassembly_qualities(this) ==
    LET qualities == IF this.qualities = <<>> THEN << <<>> >> ELSE this.qualities
    IN  [qualities EXCEPT ![1] = unique(@ \o new_qualities_of(this.tools))]

disassembly_requirements(this) ==
    [id_ |-> this.id_,
     qualities |-> disassembly_qualities(this),
     tools |-> SelectSeq(cleared_tools(this.tools), LAMBDA tcv : tcv # <<>>),
     components |-> remove_unrecoverable(this.components)]

(***************************************************************************)
(* Requirement sets the derivation is applied to.                          *)
(***************************************************************************)
DisToolGroups ==
    { <<tool_comp(t, -1)>> :
        t \in {"welder", "welder_crude", "oxy_torch", "forge", "char_forge",
               "sewing_kit", "mold_plastic", "crucible", "hammer"} }
    \cup
    { <<tool_comp("welder", 10)>>,
      <<tool_comp("sewing_kit", -1), tool_comp("welder", -1)>>,
      <<tool_comp("hammer", -1), tool_comp("welder", -1)>>,
      <<tool_comp("crucible", -1), tool_comp("forge", -1)>>,
      <<tool_comp("hammer", -1), tool_comp("sewing_kit", 5)>>,
      <<tool_comp("hammer", -1), tool_comp("screwdriver", -1)>> }

DisQualityLists ==
    { <<>>,
      << <<quality_requirement("SAW_M_FINE", 1, 1)>> >>,
      << <<quality_requirement("CUT", 2, 1), quality_requirement("CUT", 1, 1)>> >>,
      << <<quality_requirement("SAW_M_FINE", 2, 2), quality_requirement("HAMMER", 1, 1)>> >>,
      << <<quality_requirement("HAMMER", 1, 1)>>,
         <<quality_requirement("SAW_M_FINE", 1, 1)>> >> }

DisComponentLists ==
    { <<>>,
      << <<item_comp("steel_chunk", 2, TRUE)>> >>,
      << <<item_comp("steel_chunk", 2, FALSE)>> >>,
      << <<item_comp("superglue", 1, TRUE), item_comp("steel_chunk", 1, FALSE)>>,
         <<item_comp("steel_chunk", 3, TRUE), item_comp("scrap", 1, FALSE)>> >>,
      << <<item_comp("steel_chunk", 1, FALSE), item_comp("scrap", 4, TRUE),
           item_comp("superglue", 1, TRUE)>> >>,
      << <<item_comp("scrap", 1, TRUE)>>,
         <<item_comp("superglue", 1, TRUE)>>,
         <<item_comp("pipe", 1, TRUE), item_comp("scrap", 2, TRUE)>> >> }

DisRequirements ==
    { requirement_data("r_craft", q, t, c) :
        q \in DisQualityLists,
        t \in SeqUpTo(DisToolGroups, MaxToolGroups),
        c \in DisComponentLists }

(***************************************************************************)
(* Specification of the derivation: a requirement set, then its            *)
(* disassembly requirements.                                               *)
(***************************************************************************)
InitDis ==
    /\ req \in DisRequirements
    /\ crafting_inv = [amount |-> [t \in ItemTypes |-> 0],
                       pseudo |-> [t \in ItemTypes |-> 0],
                       charges |-> [t \in ItemTypes |-> 0]]
    /\ batch = 1
    /\ u = NoTrait
    /\ retval = NoCall
    /\ ncalls = 0
    /\ prev = NoCall
    /\ rhs = null_requirement
    /\ scalar = 1
    /\ res = null_requirement
    /\ requirements_all = EmptyCatalog
    /\ op = "init"
    /\ key = NULL_ID
    /\ saved = <<>>

Disassemble ==
    /\ op = "init"
    /\ res' = disassembly_requirements(req)
    /\ op' = "disassembly_requirements"
    /\ UNCHANGED <<req, crafting_inv, batch, u, retval, ncalls, prev, rhs, scalar,
                   requirements_all, key, saved>>

NextDis == Disassemble

SpecDis == InitDis /\ [][NextDis]_vars

(***************************************************************************)
(* Properties of the derivation.                                           *)
(***************************************************************************)
Derived == op = "disassembly_requirements"

Range(seq) == {seq[k] : k \in 1..Len(seq)}

SawTools == {"welder", "welder_crude", "oxy_torch", "forge", "char_forge"}

TableTools == SawTools \cup {"sewing_kit", "mold_plastic", "crucible"}

HasSawQuality(r) ==
    \E g \in Range(r.qualities) : \E q \in Range(g) : q.type = "SAW_M_FINE"

\* the first tool of the group that is in the replacement table is a saw tool
FirstTableToolIsSaw(g) ==
    \E j \in 1..Len(g) :
        /\ g[j].type \in SawTools
        /\ \A k \in 1..(j - 1) : g[k].type \notin TableTools

\* a base without qualities whose tools are one group of a welder alone
OnlyAWelderGroup(r) ==
    /\ r.qualities = <<>>
    /\ Len(r.tools) = 1
    /\ Len(r.tools[1]) = 1
    /\ r.tools[1][1].type = "welder"

WelderAloneDerivation ==
    OnlyAWelderGroup(req) =>
        /\ res.tools = <<>>
        /\ res.qualities = << <<quality_requirement("SAW_M_FINE", 1, 1)>> >>

\* C5 as stated: every tool group that holds a saw tool at any position is
\* absent from the derived tools and the derived qualities hold SAW_M_FINE;
\* a lone welder group derives to no tools and exactly SAW_M_FINE 1/1.
C5_AnyPositionSubstitution ==
    Derived =>
        /\ \A g \in Range(req.tools) :
              (\E j \in 1..Len(g) : g[j].type \in SawTools)
              => (g \notin Range(res.tools) /\ HasSawQuality(res))
        /\ WelderAloneDerivation

\* C5 amended: every tool group that holds a tool of the table is absent from
\* the derived tools, the groups without one are kept in order, and when the
\* first table tool of a group is a saw tool the first derived quality group
\* holds SAW_M_FINE; a lone welder group derives to no tools and exactly
\* SAW_M_FINE 1/1.
C5_FirstMatchSubstitution ==
    Derived =>
        /\ \A g \in Range(req.tools) :
              /\ (\E j \in 1..Len(g) : g[j].type \in TableTools)
                     => g \notin Range(res.tools)
              /\ FirstTableToolIsSaw(g)
                     => \E q \in Range(res.qualities[1]) : q.type = "SAW_M_FINE"
        /\ \A g \in Range(req.tools) :
              (g # <<>> /\ \A j \in 1..Len(g) : g[j].type \notin TableTools)
                  => g \in Range(res.tools)
        /\ WelderAloneDerivation

\* a saw tool behind a non-table tool is replaced, another group survives
C5_Witness ==
    /\ Derived
    /\ \E g \in Range(req.tools) :
          /\ Len(g) = 2
          /\ g[1].type \notin TableTools
          /\ g[2].type \in SawTools
    /\ ~HasSawQuality(req)
    /\ HasSawQuality(res)
    /\ Len(res.tools) = 1

\* C6: the derived components are the base components without the members
\* that are not recoverable (own flag or UNRECOVERABLE item flag) and without
\* the groups that lose all members; the rest keeps count and order.
Recoverable(comp) == comp.recoverable /\ ~has_flag(comp.type, "UNRECOVERABLE")

KeptGroups(components) ==
    {i \in 1..Len(components) : \E c \in Range(components[i]) : Recoverable(c)}

\* the n-th smallest element of a set of numbers
RECURSIVE Nth(_, _)
Nth(S, n) == IF n = 1 THEN Min(S) ELSE Nth(S \ {Min(S)}, n - 1)

RECURSIVE KeepRecoverable(_)
KeepRecoverable(group) ==
    IF group = <<>> THEN <<>>
    ELSE (IF Recoverable(Head(group)) THEN <<Head(group)>> ELSE <<>>)
         \o KeepRecoverable(Tail(group))

C6_ComponentFiltering ==
    Derived =>
        LET kept == KeptGroups(req.components)
        IN  /\ Len(res.components) = Cardinality(kept)
            /\ \A n \in 1..Len(res.components) :
                  /\ res.components[n] # <<>>
                  /\ res.components[n] =
                         KeepRecoverable(req.components[Nth(kept, n)])

\* a group of unrecoverable members only is dropped, a mixed group is thinned
C6_Witness ==
    /\ Derived
    /\ Len(req.components) = 2
    /\ \A c \in Range(req.components[1]) : ~Recoverable(c)
    /\ \E c \in Range(req.components[1]) : c.recoverable
    /\ Len(res.components) = 1
    /\ Len(res.components[1]) < Len(req.components[2])

\* C7: the first derived quality group is the base's first quality group (a
\* new one if the base has none) followed by the replacement qualities, with
\* only the first entry of every quality identifier kept: no identifier occurs
\* twice in it.
RECURSIVE KeepFirstOfEachType(_, _)
KeepFirstOfEachType(seq, seen) ==
    IF seq = <<>> THEN <<>>
    ELSE IF Head(seq).type \in seen
         THEN KeepFirstOfEachType(Tail(seq), seen)
         ELSE <<Head(seq)>> \o
              KeepFirstOfEachType(Tail(seq), seen \cup {Head(seq).type})

C7_QualityDeduplication ==
    Derived =>
        /\ res.qualities[1] =
               KeepFirstOfEachType(
                   (IF req.qualities = <<>> THEN <<>> ELSE req.qualities[1])
                   \o new_qualities_of(req.tools), {})
        /\ \A i, j \in 1..Len(res.qualities[1]) :
              i # j => res.qualities[1][i].type # res.qualities[1][j].type

(***************************************************************************)
(* requirement_data::operator* and requirement_data::operator+             *)
(***************************************************************************)
\* int( scalar ): the conversion of the unsigned operand
int(x) == IF x <= 2147483647 THEN x ELSE ((x - 2147483647) - 2147483647) - 2

\* the scaling of one count without the clamp
scaled_count_unclamped(count, n) == count * int(n)

\* lines 181 and 186
scaled_count(count, n) == max(count * int(n), -1)

scale_list(vec, n) ==
    [i \in 1..Len(vec) |->
        [j \in 1..Len(vec[i]) |->
            [vec[i][j] EXCEPT !.count = scaled_count(@, n)]]]

operator_times(this, n) ==
    [this EXCEPT !.components = scale_list(@, n), !.tools = scale_list(@, n)]

\* the insert of rhs with the groups this already holds skipped
insert_at_end_merging(vec, other) ==
    vec \o SelectSeq(other, LAMBDA g : \A k \in 1..Len(vec) : vec[k] # g)

\* vector::insert( end(), rhs.begin(), rhs.end() ), lines 197-199
insert_at_end(vec, other) == vec \o other

operator_plus(this, other) ==
    [id_ |-> NULL_ID,
     components |-> insert_at_end(this.components, other.components),
     tools |-> insert_at_end(this.tools, other.tools),
     qualities |-> insert_at_end(this.qualities, other.qualities)]

(***************************************************************************)
(* Operands of the algebra.                                                *)
(***************************************************************************)
ToolCounts == (-MaxCount..MaxCount) \ {0}

AlgToolGroups ==
    { <<tool_comp("hammer", c)>> : c \in ToolCounts }
    \cup { <<tool_comp("welder", MaxCount), tool_comp("hammer", -MaxCount)>> }

AlgComponentLists ==
    { <<>>,
      << <<item_comp("nails", MaxCount, TRUE)>> >>,
      << <<item_comp("nails", 1, TRUE), item_comp("scrap", MaxCount, FALSE)>>,
         <<item_comp("pipe", 1, TRUE)>> >> }

AlgQualityLists ==
    { <<>>,
      << <<quality_requirement("HAMMER", 2, MaxCount)>> >>,
      << <<quality_requirement("CUT", 1, 1)>>, <<quality_requirement("HAMMER", 2, 1)>> >> }

LeftOperands ==
    { requirement_data(id, q, t, c) :
        id \in {NULL_ID, "r_craft"},
        q \in AlgQualityLists,
        t \in SeqUpTo(AlgToolGroups, MaxToolGroups),
        c \in AlgComponentLists }

RightOperands ==
    { requirement_data(id, q, t, c) :
        id \in {NULL_ID, "r_byproduct"},
        q \in {<<>>, << <<quality_requirement("HAMMER", 2, MaxCount)>> >>},
        t \in SeqUpTo({<<tool_comp("hammer", -1)>>}, 1),
        c \in {<<>>, << <<item_comp("nails", MaxCount, TRUE)>> >>} }

\* the catalog holding the operands that have a real id
Registered(a, b) ==
    [id \in {a.id_, b.id_} \ {NULL_ID} |-> IF id = a.id_ THEN a ELSE b]

(***************************************************************************)
(* Specification of the algebra: two requirement sets and a scalar, then   *)
(* one of the two operators.                                               *)
(***************************************************************************)
InitAlg ==
    /\ req \in LeftOperands
    /\ rhs \in RightOperands
    /\ scalar \in 1..MaxScalar
    /\ crafting_inv = [amount |-> [t \in ItemTypes |-> 0],
                       pseudo |-> [t \in ItemTypes |-> 0],
                       charges |-> [t \in ItemTypes |-> 0]]
    /\ batch = 1
    /\ u = NoTrait
    /\ retval = NoCall
    /\ ncalls = 0
    /\ prev = NoCall
    /\ res = null_requirement
    /\ requirements_all = Registered(req, rhs)
    /\ op = "init"
    /\ key = NULL_ID
    /\ saved = <<>>

\* res = req * scalar
Scale ==
    /\ op = "init"
    /\ res' = operator_times(req, scalar)
    /\ op' = "operator*"
    /\ UNCHANGED <<req, crafting_inv, batch, u, retval, ncalls, prev, rhs, scalar,
                   requirements_all, key, saved>>

\* res = req + rhs
Combine ==
    /\ op = "init"
    /\ res' = operator_plus(req, rhs)
    /\ op' = "operator+"
    /\ UNCHANGED <<req, crafting_inv, batch, u, retval, ncalls, prev, rhs, scalar,
                   requirements_all, key, saved>>

NextAlg == Scale \/ Combine

SpecAlg == InitAlg /\ [][NextAlg]_vars

(***************************************************************************)
(* Properties of the algebra.                                              *)
(***************************************************************************)
Scaled == op = "operator*"

Combined == op = "operator+"

SameShape(a, b) ==
    /\ Len(a) = Len(b)
    /\ \A i \in 1..Len(a) :
          /\ Len(a[i]) = Len(b[i])
          /\ \A j \in 1..Len(a[i]) :
                [a[i][j] EXCEPT !.count = 0] = [b[i][j] EXCEPT !.count = 0]

\* C8: req * n keeps groups, members and their order; a tool count c < 0
\* becomes max(c*n, -1), a tool count c > 0 becomes c*n, a component count c
\* becomes c*n, qualities are unchanged and every tool keeps its kind.
C8_Scale ==
    Scaled =>
        /\ SameShape(req.tools, res.tools)
        /\ SameShape(req.components, res.components)
        /\ res.qualities = req.qualities
        /\ \A p \in Members(req.tools) :
              LET c == req.tools[p[1]][p[2]].count
                  d == res.tools[p[1]][p[2]].count
              IN  /\ c < 0 => d = max(c * scalar, -1)
                  /\ c > 0 => d = c * scalar
                  /\ by_charges(res.tools[p[1]][p[2]])
                         <=> by_charges(req.tools[p[1]][p[2]])
        /\ \A p \in Members(req.components) :
              res.components[p[1]][p[2]].count
                  = req.components[p[1]][p[2]].count * scalar

\* a by-possession tool of magnitude above 1 and a by-charges tool, scaled
C8_Witness ==
    /\ Scaled
    /\ scalar > 1
    /\ \E p \in Members(req.tools) :
          req.tools[p[1]][p[2]].count < -1 /\ res.tools[p[1]][p[2]].count = -1
    /\ \E p \in Members(req.tools) :
          req.tools[p[1]][p[2]].count > 0
          /\ res.tools[p[1]][p[2]].count > req.tools[p[1]][p[2]].count
    /\ req.components # <<>>
    /\ req.qualities # <<>>

\* C9: the results of operator* and operator+ carry the null id, and neither
\* operator changes its operands or the catalog.
C9_AlgebraAnonymous ==
    [][(op' \in {"operator*", "operator+"}) =>
          /\ res'.id_ = NULL_ID
          /\ req' = req
          /\ rhs' = rhs
          /\ requirements_all' = requirements_all]_vars

\* C10: each list of req + rhs is req's list followed by rhs's list, nothing
\* dropped, merged, reordered or deduplicated.
Concatenated(a, b, c) ==
    /\ Len(c) = Len(a) + Len(b)
    /\ \A k \in 1..Len(a) : c[k] = a[k]
    /\ \A k \in 1..Len(b) : c[Len(a) + k] = b[k]

C10_Combine ==
    Combined =>
        /\ Concatenated(req.components, rhs.components, res.components)
        /\ Concatenated(req.tools, rhs.tools, res.tools)
        /\ Concatenated(req.qualities, rhs.qualities, res.qualities)

\* both operands hold the same group in each list, and both copies are kept
C10_Witness ==
    /\ Combined
    /\ \E g \in Range(req.tools) : g \in Range(rhs.tools)
    /\ \E g \in Range(req.components) : g \in Range(rhs.components)
    /\ \E g \in Range(req.qualities) : g \in Range(rhs.qualities)
    /\ Len(res.tools) = Len(req.tools) + Len(rhs.tools)
    /\ Len(res.tools) > 2

(***************************************************************************)
(* to_string, any_marked_available, print_missing_objs and list_missing.   *)
(* A string is the sequence of its pieces, one record per piece: a format  *)
(* with its arguments for a description, a format alone for a literal.     *)
(***************************************************************************)
literal(string) == [format |-> string]

\* quality_requirement::to_string, tool_comp::to_string, item_comp::to_string
to_string(comp, b) ==
    IF is_quality_requirement(comp)
    THEN [format |-> "%d tool with %s of %d or more.", count |-> comp.count,
          name |-> comp.type, level |-> comp.level]
    ELSE IF is_item_comp(comp)
    THEN [format |-> "%d %s", count |-> abs(comp.count) * b, name |-> comp.type]
    ELSE IF by_charges(comp)
    THEN [format |-> "%s (%d charges)", name |-> comp.type, count |-> comp.count * b]
    ELSE [format |-> "%s", name |-> comp.type, count |-> abs(comp.count)]

\* requirement_data::any_marked_available
any_marked_available(comps) ==
    \E k \in 1..Len(comps) : comps[k].available = a_true

RECURSIVE joined(_)
\* the loop of lines 271-276: the descriptions of one group, " or " between them
joined(list) ==
    IF list = <<>> THEN <<>>
    ELSE IF Len(list) = 1 THEN <<to_string(list[1], 1)>>
    ELSE <<to_string(list[1], 1), literal(" or ")>> \o joined(Tail(list))

RECURSIVE missing_buffer(_, _)
\* the loop of lines 264-277 over the groups left, buffer being what it wrote so far
missing_buffer(objs, buffer) ==
    IF objs = <<>> THEN buffer
    ELSE IF any_marked_available(Head(objs))
         THEN missing_buffer(Tail(objs), buffer)
         ELSE missing_buffer(Tail(objs),
                             buffer \o (IF buffer # <<>> THEN <<literal("\n"), literal("and ")>> ELSE <<>>)
                                    \o joined(Head(objs)))

\* requirement_data::print_missing_objs
print_missing_objs(header, objs) ==
    LET buffer == missing_buffer(objs, <<>>)
    IN  IF buffer = <<>> THEN <<>> ELSE <<literal(header), literal("\n")>> \o buffer \o <<literal("\n")>>

\* requirement_data::list_missing
list_missing(this) ==
    print_missing_objs("These tools are missing:", this.tools)
    \o print_missing_objs("These tools are missing:", this.qualities)
    \o print_missing_objs("Those components are missing:", this.components)

(***************************************************************************)
(* Properties of the report.                                               *)
(***************************************************************************)
Texts(report) == {report[k] : k \in 1..Len(report)}

\* every member of the group is described in the report
GroupReported(group, report) ==
    \A k \in 1..Len(group) : to_string(group[k], 1) \in Texts(report)

ReportsUnsatisfiedGroups(vec, report) ==
    \A i \in 1..Len(vec) :
        GroupReported(vec[i], report) <=> ~any_marked_available(vec[i])

\* in the report the tools come first, then the qualities, then the components
Rank(piece) ==
    IF piece \in {to_string(Flatten(req.tools)[k], 1) : k \in 1..Len(Flatten(req.tools))}
    THEN 1
    ELSE IF piece \in {to_string(Flatten(req.qualities)[k], 1) :
                         k \in 1..Len(Flatten(req.qualities))}
    THEN 2
    ELSE IF piece \in {to_string(Flatten(req.components)[k], 1) :
                         k \in 1..Len(Flatten(req.components))}
    THEN 3
    ELSE 0

InListOrder(report) ==
    \A k, l \in 1..Len(report) :
        (k < l /\ Rank(report[k]) > 0 /\ Rank(report[l]) > 0)
            => Rank(report[k]) <= Rank(report[l])

HasEmptyGroup(r) ==
    \E g \in Range(r.qualities) \cup Range(r.tools) \cup Range(r.components) : g = <<>>

\* C11: after a call the report describes exactly the groups without a member
\* marked a_true, tools first, then qualities, then components, and it is the
\* empty string exactly when the call returned true.
C11_ListMissing ==
    Called =>
        LET report == list_missing(req)
        IN  /\ ReportsUnsatisfiedGroups(req.tools, report)
            /\ ReportsUnsatisfiedGroups(req.qualities, report)
            /\ ReportsUnsatisfiedGroups(req.components, report)
            /\ InListOrder(report)
            /\ (report = <<>>) <=> (retval = TRUE)

\* C11 for the sets that hold no empty group
C11_ListMissingOfNonEmptyGroups ==
    (Called /\ ~HasEmptyGroup(req)) => C11_ListMissing

\* the tool is missing and reported, the satisfied component group is not
C11_Witness ==
    /\ Called
    /\ ~HasEmptyGroup(req)
    /\ retval = FALSE
    /\ req.tools # <<>> /\ ~any_marked_available(req.tools[1])
    /\ req.components # <<>> /\ any_marked_available(req.components[1])
    /\ list_missing(req) =
           <<literal("These tools are missing:"), literal("\n")>>
               \o joined(req.tools[1]) \o <<literal("\n")>>

(***************************************************************************)
(* The annotations a call leaves.                                          *)
(***************************************************************************)
\* quality and tool items: a_true when the own predicate holds, else a_false
OwnVerdictOnly(vec) ==
    \A i \in 1..Len(vec) : \A j \in 1..Len(vec[i]) :
        vec[i][j].available = (IF IsSatisfied(vec[i][j]) THEN a_true ELSE a_false)

\* components: a_false when the own predicate fails, else a_true or a_insufficent
OwnVerdictOrDemoted(vec) ==
    \A i \in 1..Len(vec) : \A j \in 1..Len(vec[i]) :
        /\ vec[i][j].available \in {a_true, a_false, a_insufficent}
        /\ (vec[i][j].available = a_false) <=> ~IsSatisfied(vec[i][j])
        /\ (vec[i][j].available = a_insufficent) => IsSatisfied(vec[i][j])

\* C14: after a call no item is a_unknown; a quality or tool item is a_true
\* exactly when its own predicate holds and a_false otherwise; a component is
\* a_false exactly when its own predicate fails and a_insufficent only when it
\* holds.
C14_AnnotationDomain ==
    Called =>
        /\ OwnVerdictOnly(req.qualities)
        /\ OwnVerdictOnly(req.tools)
        /\ OwnVerdictOrDemoted(req.components)

\* one call left a demoted component, an absent component and a present tool
C14_Witness ==
    /\ Called
    /\ \E p \in Members(req.components) :
          req.components[p[1]][p[2]].available = a_insufficent
    /\ \E p \in Members(req.components) :
          req.components[p[1]][p[2]].available = a_false
    /\ \E p \in Members(req.tools) : req.tools[p[1]][p[2]].available = a_true
    /\ \E p \in Members(req.tools) : req.tools[p[1]][p[2]].available = a_false

(***************************************************************************)
(* Groups of the derived set.                                              *)
(***************************************************************************)
\* C13: the disassembly requirements of a set that holds no empty group hold
\* no empty quality, tool or component group.
C13_NoEmptyGroupDerived ==
    (Derived /\ ~HasEmptyGroup(req)) => ~HasEmptyGroup(res)

\* the tool and component groups of the derived set are never empty
C13_NoEmptyToolOrComponentGroup ==
    (Derived /\ ~HasEmptyGroup(req)) =>
        \A g \in Range(res.tools) \cup Range(res.components) : g # <<>>

\* an empty quality group is derived only from a set without qualities
C13_EmptyQualityGroupOnlyFromNone ==
    (Derived /\ ~HasEmptyGroup(req) /\ req.qualities # <<>>) =>
        \A g \in Range(res.qualities) : g # <<>>

(***************************************************************************)
(* The catalog requirements_all: is_valid, obj, save_requirement, reset.   *)
(***************************************************************************)
\* string_id<requirement_data>::is_valid
is_valid(all, rid) == rid \in DOMAIN all

\* string_id<requirement_data>::obj; an id that is absent also raises a debugmsg
obj(all, rid) == IF rid \in DOMAIN all THEN all[rid] ELSE null_requirement

\* a variant of save_requirement that stores under the id the set came with
save_requirement_under_own_id(all, r, id) ==
    LET dup == IF id # "" THEN [r EXCEPT !.id_ = id] ELSE r
    IN  [k \in DOMAIN all \cup {r.id_} |-> IF k = r.id_ THEN dup ELSE all[k]]

\* requirement_data::save_requirement
save_requirement(all, r, id) ==
    LET dup == IF id # "" THEN [r EXCEPT !.id_ = id] ELSE r
    IN  [k \in DOMAIN all \cup {dup.id_} |-> IF k = dup.id_ THEN dup ELSE all[k]]

\* requirement_data::reset
reset(all) == EmptyCatalog

(***************************************************************************)
(* Specification of the catalog: any sequence of save_requirement, reset,  *)
(* is_valid and obj.                                                       *)
(***************************************************************************)
CatRequirements ==
    { requirement_data("r_craft", <<>>, << <<tool_comp("welder", -1)>> >>, <<>>),
      requirement_data("r_craft", <<>>, <<>>, << <<item_comp("scissors", 1, TRUE)>> >>),
      requirement_data("r_byproduct", <<>>, <<>>, << <<item_comp("nails", 2, TRUE)>> >>) }

\* the id argument of save_requirement; "" is its default
SaveIds == {"", "r_craft"}

\* the ids looked up; nothing is ever saved under "r_inline"
LookupIds == {"r_craft", "r_byproduct", "r_inline"}

InitCat ==
    /\ req = null_requirement
    /\ crafting_inv = [amount |-> [t \in ItemTypes |-> 0],
                       pseudo |-> [t \in ItemTypes |-> 0],
                       charges |-> [t \in ItemTypes |-> 0]]
    /\ batch = 1
    /\ u = NoTrait
    /\ retval = NoCall
    /\ ncalls = 0
    /\ prev = NoCall
    /\ rhs = null_requirement
    /\ scalar = 1
    /\ res = null_requirement
    /\ requirements_all = EmptyCatalog
    /\ op = "init"
    /\ key = NULL_ID
    /\ saved = <<>>

SaveRequirement ==
    /\ Len(saved) < MaxSaves
    /\ \E r \in CatRequirements, id \in SaveIds :
          /\ requirements_all' = save_requirement(requirements_all, r, id)
          /\ saved' = Append(saved, [req |-> r, id |-> id])
    /\ op' = "save_requirement"
    /\ UNCHANGED <<req, crafting_inv, batch, u, retval, ncalls, prev, rhs, scalar,
                   res, key>>

Reset ==
    /\ requirements_all' = reset(requirements_all)
    /\ saved' = <<>>
    /\ op' = "reset"
    /\ UNCHANGED <<req, crafting_inv, batch, u, retval, ncalls, prev, rhs, scalar,
                   res, key>>

IsValid ==
    /\ \E rid \in LookupIds :
          /\ key' = rid
          /\ retval' = is_valid(requirements_all, rid)
    /\ op' = "is_valid"
    /\ UNCHANGED <<req, crafting_inv, batch, u, ncalls, prev, rhs, scalar, res,
                   requirements_all, saved>>

Obj ==
    /\ \E rid \in LookupIds :
          /\ key' = rid
          /\ res' = obj(requirements_all, rid)
    /\ op' = "obj"
    /\ UNCHANGED <<req, crafting_inv, batch, u, retval, ncalls, prev, rhs, scalar,
                   requirements_all, saved>>

NextCat == SaveRequirement \/ Reset \/ IsValid \/ Obj

SpecCat == InitCat /\ [][NextCat]_vars

(***************************************************************************)
(* Properties of the catalog.                                              *)
(***************************************************************************)
\* the id the n-th save_requirement since the last reset was made under
KeyOf(n) == IF saved[n].id # "" THEN saved[n].id ELSE saved[n].req.id_

SavesUnder(rid) == {n \in 1..Len(saved) : KeyOf(n) = rid}

Latest(S) == CHOOSE n \in S : \A m \in S : m <= n

\* what a lookup of rid is to return
Expected(rid) ==
    IF SavesUnder(rid) = {}
    THEN requirement_data(NULL_ID, <<>>, <<>>, <<>>)
    ELSE [saved[Latest(SavesUnder(rid))].req EXCEPT !.id_ = rid]

\* C12: obj of an id returns the set most recently saved under it since the
\* last reset, with id_ equal to that id, and the null requirement without any
\* group if none was; a lookup leaves the catalog as the saves made it; an id
\* is valid exactly when a set was saved under it, none is after reset.
C12_CatalogLookup ==
    /\ \A rid \in LookupIds :
          /\ obj(requirements_all, rid) = Expected(rid)
          /\ is_valid(requirements_all, rid) <=> SavesUnder(rid) # {}
    /\ DOMAIN requirements_all = {KeyOf(n) : n \in 1..Len(saved)}
    /\ op = "obj" => res = Expected(key)
    /\ op = "is_valid" => retval = (SavesUnder(key) # {})
    /\ op = "reset" => \A rid \in LookupIds : ~is_valid(requirements_all, rid)

\* obj returned the later of two different sets saved under one id, the later
\* one saved under an id that is not its own
C12_Witness ==
    /\ op = "obj"
    /\ \E m, n \in SavesUnder(key) :
          /\ m < n
          /\ n = Latest(SavesUnder(key))
          /\ saved[n].req.id_ # key
          /\ saved[m].req.components # saved[n].req.components
          /\ res.components = saved[n].req.components
          /\ res.id_ = key

\* obj of an id nothing is saved under, the catalog holding other sets
C12_WitnessAbsent ==
    /\ op = "obj"
    /\ SavesUnder(key) = {}
    /\ saved # <<>>
    /\ res = null_requirement

====
